---- MODULE Spec2Model ----
(***************************************************************************)
(* Head synchronization scheduler of the chain package (SyncManager):      *)
(* the peer-head registry with its bootstrap gate (SetPeerHead), the       *)
(* control loop (syncScheduler with scheduleIncoming, scheduleWorkSent and *)
(* scheduleProcessResult), the bucket set (syncBucketSet /                 *)
(* syncTargetBucket) and the pool of syncWorker goroutines.                *)
(*                                                                         *)
(* Channels are unbuffered: a send and its receive are one step.  The      *)
(* control loop is one goroutine that owns activeSyncs, syncQueue,         *)
(* activeSyncTips, nextSyncTarget and workerChan, so a receive and the     *)
(* handler the loop runs on it are one step as well.  Spec has the          *)
(* behaviours in which Stop is not called and doSync does not panic;       *)
(* SpecStop adds Stop, the return of the control loop and a panic of       *)
(* doSync.                                                                 *)
(***************************************************************************)
EXTENDS Integers, Sequences, FiniteSets, TLC

\* ---------------------------------------------------------------- bounds
\* Number of SetPeerHead calls made over a behaviour.
MaxReports == 3
\* Number of calls made on the bucket set sbs.
MaxCalls == 4

\* ------------------------------------------------------ program constants
syncWorkerCount == 3
BootstrapPeerThreshold == 2

\* ------------------------------------------------------------- tip sets
\* A tip set is the value the scheduler reads through Cids(), Parents(),
\* Height() and ParentWeight(): the block identifiers, the parents'
\* block identifiers, the height and the weight.
mkTipSet(c, p, h, w) == [cids |-> c, parents |-> p, height |-> h, weight |-> w]

\* The tip sets peers report: the genesis tip set (height 0), the chain
\* {g} <- {a} <- {b1, b2} <- {c} above it, and {b3}, a sibling of {b1, b2}
\* (same parents) that is heavier and ties on weight with {c}.
TipSets ==
    { mkTipSet({"g"},        {},           0, 0),
      mkTipSet({"a"},        {"g"},        1, 1),
      mkTipSet({"b1", "b2"}, {"a"},        2, 2),
      mkTipSet({"b3"},       {"a"},        2, 3),
      mkTipSet({"c"},        {"b1", "b2"}, 3, 3) }

\* The nil *types.TipSet.
NilTipSet == mkTipSet({}, {}, 0, 0)

Peers == {"p1", "p2"}
\* The goroutines that call SetPeerHead.
Callers == {"c1", "c2"}
Workers == 1..syncWorkerCount

Cids(ts) == ts.cids
Parents(ts) == ts.parents
Height(ts) == ts.height
ParentWeight(ts) == ts.weight
\* TipSetKey: the key is made of the block identifiers.
Key(ts) == ts.cids
\* types.CidArrsEqual: same identifiers, whatever the order.
CidArrsEqual(a, b) == a = b
\* TipSet.Equals: same block identifiers.
Equals(a, b) == CidArrsEqual(Cids(a), Cids(b))
\* BigInt comparisons of weights.
LessThan(a, b) == a < b
GreaterThan(a, b) == a > b

\* ---------------------------------------------------- syncTargetBucket
mkBucket(tips, count) == [tips |-> tips, count |-> count]

\* sameChainAs that takes every tip set.
sameChainAsAny(stb, ts) == Len(stb.tips) > 0

sameChainAs(stb, ts) ==
    \E i \in 1..Len(stb.tips) :
        \/ Equals(ts, stb.tips[i])
        \/ CidArrsEqual(Cids(ts), Parents(stb.tips[i]))
        \/ CidArrsEqual(Parents(ts), Cids(stb.tips[i]))

\* add that counts the tip set and does not keep it.
addCountOnly(stb, ts) == mkBucket(stb.tips, stb.count + 1)

add(stb, ts) ==
    IF \E i \in 1..Len(stb.tips) : Equals(stb.tips[i], ts)
    THEN mkBucket(stb.tips, stb.count + 1)
    ELSE mkBucket(Append(stb.tips, ts), stb.count + 1)

RECURSIVE heaviestFrom(_, _, _)
heaviestFrom(tips, i, best) ==
    IF i > Len(tips) THEN best
    ELSE heaviestFrom(tips, i + 1,
            IF best = NilTipSet \/ GreaterThan(ParentWeight(tips[i]), ParentWeight(best))
            THEN tips[i] ELSE best)

heaviestTipSet(stb) == heaviestFrom(stb.tips, 1, NilTipSet)

\* ------------------------------------------------------- syncBucketSet
\* A bucket set is the sequence sbs.buckets.
removeBucket(buckets, idx) ==
    SubSeq(buckets, 1, idx - 1) \o SubSeq(buckets, idx + 1, Len(buckets))

\* Index of the first bucket that is sameChainAs ts, 0 when there is none.
firstRelated(buckets, ts) ==
    IF \E i \in 1..Len(buckets) : sameChainAs(buckets[i], ts)
    THEN CHOOSE i \in 1..Len(buckets) :
            /\ sameChainAs(buckets[i], ts)
            /\ \A j \in 1..(i - 1) : ~sameChainAs(buckets[j], ts)
    ELSE 0

\* Insert that never looks for a related bucket.
InsertAppend(buckets, ts) == Append(buckets, mkBucket(<<ts>>, 1))

Insert(buckets, ts) ==
    LET i == firstRelated(buckets, ts) IN
    IF i > 0
    THEN [buckets EXCEPT ![i] = add(buckets[i], ts)]
    ELSE Append(buckets, mkBucket(<<ts>>, 1))

\* Index of the bucket Pop's loop ends with: a later bucket replaces the
\* best one only when its heaviest tip set is strictly heavier.
RECURSIVE bestFrom(_, _, _)
bestFrom(buckets, i, best) ==
    IF i > Len(buckets) THEN best
    ELSE bestFrom(buckets, i + 1,
            IF best = 0 \/ LessThan(ParentWeight(heaviestTipSet(buckets[best])),
                                    ParentWeight(heaviestTipSet(buckets[i])))
            THEN i ELSE best)

\* Pop faults on an empty set: bestBuck stays nil and removeBucket asks
\* make for a slice of capacity -1.
PopFaults(buckets) == Len(buckets) = 0

\* Pop that takes the bucket at the front.
PopIndexFirst(buckets) == 1

PopIndex(buckets) == bestFrom(buckets, 1, 0)

\* Pop on a non-empty set: the bucket returned and the buckets left.
Pop(buckets) ==
    LET i == PopIndex(buckets) IN
    [bucket |-> buckets[i], rest |-> removeBucket(buckets, i)]

\* PopRelated that goes on to the last related bucket.
PopRelatedLast(buckets, ts) ==
    LET rel == {i \in 1..Len(buckets) : sameChainAs(buckets[i], ts)} IN
    IF rel # {}
    THEN LET i == CHOOSE x \in rel : \A y \in rel : y <= x IN
         [found |-> TRUE, bucket |-> buckets[i], rest |-> removeBucket(buckets, i)]
    ELSE [found |-> FALSE, bucket |-> mkBucket(<<>>, 0), rest |-> buckets]

\* PopRelated: found is FALSE when the result is nil.
PopRelated(buckets, ts) ==
    LET i == firstRelated(buckets, ts) IN
    IF i > 0
    THEN [found |-> TRUE, bucket |-> buckets[i], rest |-> removeBucket(buckets, i)]
    ELSE [found |-> FALSE, bucket |-> mkBucket(<<>>, 0), rest |-> buckets]

RECURSIVE heaviestOf(_, _, _)
heaviestOf(buckets, i, bestTs) ==
    IF i > Len(buckets) THEN bestTs
    ELSE LET bhts == heaviestTipSet(buckets[i]) IN
         heaviestOf(buckets, i + 1,
            IF bestTs = NilTipSet \/ GreaterThan(ParentWeight(bhts), ParentWeight(bestTs))
            THEN bhts ELSE bestTs)

\* Heaviest without the comparison between buckets.
HeaviestOfFirstBucket(buckets) == heaviestTipSet(buckets[1])

\* Heaviest that lets a later bucket of the same weight win.
RECURSIVE heaviestOfLast(_, _, _)
heaviestOfLast(buckets, i, bestTs) ==
    IF i > Len(buckets) THEN bestTs
    ELSE LET bhts == heaviestTipSet(buckets[i]) IN
         heaviestOfLast(buckets, i + 1,
            IF bestTs = NilTipSet \/ ~LessThan(ParentWeight(bhts), ParentWeight(bestTs))
            THEN bhts ELSE bestTs)
HeaviestLastTie(buckets) == heaviestOfLast(buckets, 1, NilTipSet)

Heaviest(buckets) == heaviestOf(buckets, 1, NilTipSet)

\* ------------------------------------------------------------- state
VARIABLES
    peerHeads,       \* sm.peerHeads: peer -> tip set, for the peers recorded
    bootstrapped,    \* sm.bootstrapped
    bspThresh,       \* sm.bspThresh
    lk,              \* sm.lk: "free", else the caller holding it
    call,            \* the SetPeerHead call of each caller goroutine
    activeSyncs,     \* sm.activeSyncs: key -> tip set
    syncQueue,       \* sm.syncQueue.buckets
    activeSyncTips,  \* sm.activeSyncTips.buckets
    nextSyncTarget,  \* sm.nextSyncTarget: <<>> when nil, else <<bucket>>
    workerChan,      \* sm.workerChan: "nil" or "syncTargets"
    worker,          \* the syncWorker goroutines
    maxReports,      \* SetPeerHead calls the peers make over the behaviour
    nReports,        \* SetPeerHead calls made so far
    nSelect,         \* selectSyncTarget calls made so far
    nForward,        \* tip sets received from incomingTipSets so far
    nDispatch,       \* tip sets received by workers from syncTargets so far
    nResults,        \* results received from syncResults so far
    stop,            \* sm.stop: "open" or "closed"
    scheduler,       \* the syncScheduler goroutine: "loop" or "returned"
    crashed,         \* the process ended on a panic no goroutine recovered
    trace,           \* whether the history variable failed is kept
    failed,          \* history: tip sets whose failed result was processed
    unretried,       \* history: failed tip sets to which no equal or related
                     \* tip set has come in since the failure
    sbs,             \* a syncBucketSet of its own: its buckets
    last             \* the last call made on sbs

vars == <<peerHeads, bootstrapped, bspThresh, lk, call, activeSyncs, syncQueue,
          activeSyncTips, nextSyncTarget, workerChan, worker,
          maxReports, nReports, nSelect, nForward, nDispatch, nResults,
          stop, scheduler, crashed, trace, failed, unretried, sbs, last>>

schedVars == <<activeSyncs, syncQueue, activeSyncTips, nextSyncTarget, workerChan>>
gateVars == <<peerHeads, bootstrapped, bspThresh, lk, call, maxReports, nReports, nSelect>>
procVars == <<stop, scheduler, crashed, trace>>
unitVars == <<sbs, last>>
managerVars == <<gateVars, schedVars, worker, nForward, nDispatch, nResults, procVars,
                 failed, unretried>>

\* A caller outside SetPeerHead.
\* peer and ts are the call's arguments, msg is the tip set it sends on
\* incomingTipSets, boot tells the send of line 89 from that of line 97.
idleCall == [pc |-> "idle", peer |-> "", ts |-> NilTipSet, msg |-> NilTipSet, boot |-> FALSE]
\* No syncResult.
NilResult == [ts |-> NilTipSet, success |-> FALSE]
\* A worker blocked in its receive from syncTargets.  ts is the tip set
\* it received, err tells whether doSync returned an error, res is the
\* syncResult it sends.
idleWorker == [pc |-> "idle", ts |-> NilTipSet, err |-> FALSE, res |-> NilResult]

\* No call made yet on the bucket set sbs.  op is the method called, arg
\* its argument, before the buckets before the call, ret the bucket
\* returned (found tells it from nil) and n the number of calls so far.
noCall == [op |-> "none", n |-> 0]

\* NewSyncManager, then Start, with n SetPeerHead calls to come.  bspThresh
\* is the field the owner of the manager configures: the constructor's 1
\* or BootstrapPeerThreshold.  The history variable is kept when h is TRUE.
InitWith(n, h) ==
    /\ peerHeads = [p \in {} |-> NilTipSet]
    /\ bootstrapped = FALSE
    /\ bspThresh \in {1, BootstrapPeerThreshold}
    /\ lk = "free"
    /\ call = [c \in Callers |-> idleCall]
    /\ activeSyncs = [k \in {} |-> NilTipSet]
    /\ syncQueue = <<>>
    /\ activeSyncTips = <<>>
    /\ nextSyncTarget = <<>>
    /\ workerChan = "nil"
    /\ worker = [w \in Workers |-> idleWorker]
    /\ maxReports = n
    /\ nReports = 0
    /\ nSelect = 0
    /\ nForward = 0
    /\ nDispatch = 0
    /\ nResults = 0
    /\ stop = "open"
    /\ scheduler = "loop"
    /\ crashed = FALSE
    /\ trace = h
    /\ failed = {}
    /\ unretried = {}
    /\ sbs = <<>>
    /\ last = noCall

Init == InitWith(MaxReports, FALSE)

\* The process has not ended.
alive == ~crashed
\* A control loop that returns after the first tip set it receives.
loopingOnce == ~crashed /\ scheduler = "loop" /\ nForward = 0

\* The control loop is in its select.
looping == alive /\ scheduler = "loop"

\* ------------------------------------------------ peer head registry
\* syncedPeerCount without its test of the height.
syncedPeerCountAnyHeight(heads) == Cardinality(DOMAIN heads)

syncedPeerCount(heads) == Cardinality({p \in DOMAIN heads : Height(heads[p]) > 0})

\* The orders in which selectSyncTarget may insert the peer heads: the map
\* is iterated in any order and then sorted by height.
headOrders(heads) ==
    { o \in [1..Cardinality(DOMAIN heads) -> DOMAIN heads] :
        /\ \A i, j \in DOMAIN o : i # j => o[i] # o[j]
        /\ \A i, j \in DOMAIN o : i < j => Height(heads[o[i]]) <= Height(heads[o[j]]) }

RECURSIVE insertHeads(_, _, _, _)
insertHeads(buckets, heads, o, i) ==
    IF i > Len(o) THEN buckets
    ELSE insertHeads(Insert(buckets, heads[o[i]]), heads, o, i + 1)

\* The tip sets selectSyncTarget may return.
selectSyncTarget(heads) ==
    { Heaviest(insertHeads(<<>>, heads, o, 1)) : o \in headOrders(heads) }

\* SetPeerHead without the mutex.
lockNotTaken == TRUE

\* sm.lk.Lock() succeeds.
lockFree == lk = "free"

\* A registry that keeps the first head of a peer.
recordHeadOnce(heads, p, ts) ==
    [q \in DOMAIN heads \cup {p} |-> IF q \in DOMAIN heads THEN heads[q] ELSE ts]

\* sm.peerHeads[p] = ts
recordHead(heads, p, ts) ==
    [q \in DOMAIN heads \cup {p} |-> IF q = p THEN ts ELSE heads[q]]

\* SetPeerHead up to its send on incomingTipSets (or its return, below
\* the threshold).
SetPeerHead(c, p, ts) ==
    /\ alive
    /\ call[c].pc = "idle"
    /\ nReports < maxReports
    /\ lockFree
    /\ nReports' = nReports + 1
    /\ peerHeads' = recordHead(peerHeads, p, ts)
    /\ IF ~bootstrapped
       THEN IF syncedPeerCount(peerHeads') >= bspThresh
            THEN /\ \E target \in selectSyncTarget(peerHeads') :
                        call' = [call EXCEPT ![c] = [pc |-> "send", peer |-> p, ts |-> ts,
                                                     msg |-> target, boot |-> TRUE]]
                 /\ lk' = c
                 /\ nSelect' = nSelect + 1
            ELSE UNCHANGED <<call, lk, nSelect>>
       ELSE /\ call' = [call EXCEPT ![c] = [pc |-> "send", peer |-> p, ts |-> ts,
                                        msg |-> ts, boot |-> FALSE]]
            /\ lk' = c
            /\ UNCHANGED nSelect
    /\ UNCHANGED <<bootstrapped, bspThresh, schedVars, worker, maxReports, nForward,
                   nDispatch, nResults, procVars, failed, unretried, unitVars>>

\* A return that leaves sm.bootstrapped as it was.
SetPeerHeadReturnNoFlag(c) ==
    /\ alive
    /\ call[c].pc = "sent"
    /\ lk' = IF lk = c THEN "free" ELSE lk
    /\ call' = [call EXCEPT ![c] = idleCall]
    /\ UNCHANGED <<peerHeads, bootstrapped, bspThresh, schedVars, worker, maxReports,
                   nReports, nSelect, nForward, nDispatch, nResults, procVars, failed, unretried, unitVars>>

\* SetPeerHead after its send: the bootstrap path sets the flag, and the
\* deferred Unlock runs.
SetPeerHeadReturn(c) ==
    /\ alive
    /\ call[c].pc = "sent"
    /\ bootstrapped' = (bootstrapped \/ call[c].boot)
    /\ lk' = IF lk = c THEN "free" ELSE lk
    /\ call' = [call EXCEPT ![c] = idleCall]
    /\ UNCHANGED <<peerHeads, bspThresh, schedVars, worker, maxReports, nReports,
                   nSelect, nForward, nDispatch, nResults, procVars, failed, unretried, unitVars>>

\* ------------------------------------------------------ control loop
\* The values relatedToActiveSync may end with: the loop over the map
\* breaks at an entry equal to ts, so a parent entry counts only when the
\* iteration meets it first.
relatedToActiveSync(ts) ==
    LET parentActive == \E k \in DOMAIN activeSyncs :
                            CidArrsEqual(Parents(ts), Cids(activeSyncs[k]))
        equalActive == \E k \in DOMAIN activeSyncs : Equals(ts, activeSyncs[k])
    IN  IF equalActive
        THEN IF parentActive THEN {TRUE, FALSE} ELSE {FALSE}
        ELSE {parentActive}

\* A control loop that lets a heavier arrival take the place of the
\* dispatch target.
scheduleIncomingDisplace(ts) ==
    \E related \in relatedToActiveSync(ts) :
        IF related
        THEN /\ activeSyncTips' = Insert(activeSyncTips, ts)
             /\ UNCHANGED <<activeSyncs, syncQueue, nextSyncTarget, workerChan>>
        ELSE IF nextSyncTarget # <<>> /\ sameChainAs(nextSyncTarget[1], ts)
        THEN /\ nextSyncTarget' = <<add(nextSyncTarget[1], ts)>>
             /\ UNCHANGED <<activeSyncs, syncQueue, activeSyncTips, workerChan>>
        ELSE LET q == Insert(IF nextSyncTarget = <<>> THEN syncQueue
                             ELSE Append(syncQueue, nextSyncTarget[1]), ts) IN
             /\ nextSyncTarget' = <<Pop(q).bucket>>
             /\ syncQueue' = Pop(q).rest
             /\ workerChan' = "syncTargets"
             /\ UNCHANGED <<activeSyncs, activeSyncTips>>

\* scheduleIncoming that leaves the tip set in the queue when no target
\* is set.
scheduleIncomingQueueOnly(ts) ==
    \E related \in relatedToActiveSync(ts) :
        IF related
        THEN /\ activeSyncTips' = Insert(activeSyncTips, ts)
             /\ UNCHANGED <<activeSyncs, syncQueue, nextSyncTarget, workerChan>>
        ELSE IF nextSyncTarget # <<>> /\ sameChainAs(nextSyncTarget[1], ts)
        THEN /\ nextSyncTarget' = <<add(nextSyncTarget[1], ts)>>
             /\ UNCHANGED <<activeSyncs, syncQueue, activeSyncTips, workerChan>>
        ELSE /\ syncQueue' = Insert(syncQueue, ts)
             /\ UNCHANGED <<activeSyncs, activeSyncTips, nextSyncTarget, workerChan>>

scheduleIncoming(ts) ==
    \E related \in relatedToActiveSync(ts) :
        IF related
        THEN /\ activeSyncTips' = Insert(activeSyncTips, ts)
             /\ UNCHANGED <<activeSyncs, syncQueue, nextSyncTarget, workerChan>>
        ELSE IF nextSyncTarget # <<>> /\ sameChainAs(nextSyncTarget[1], ts)
        THEN /\ nextSyncTarget' = <<add(nextSyncTarget[1], ts)>>
             /\ UNCHANGED <<activeSyncs, syncQueue, activeSyncTips, workerChan>>
        ELSE LET q == Insert(syncQueue, ts) IN
             /\ IF nextSyncTarget = <<>>
                THEN /\ nextSyncTarget' = <<Pop(q).bucket>>
                     /\ syncQueue' = Pop(q).rest
                     /\ workerChan' = "syncTargets"
                ELSE /\ syncQueue' = q
                     /\ UNCHANGED <<nextSyncTarget, workerChan>>
             /\ UNCHANGED <<activeSyncs, activeSyncTips>>

\* The tip set ts that comes in is equal to the failed tip set f or
\* related to it (its child or its parent).
comesBack(f, ts) ==
    \/ Equals(ts, f)
    \/ CidArrsEqual(Parents(ts), Cids(f))
    \/ CidArrsEqual(Parents(f), Cids(ts))

\* case ts := <-sm.incomingTipSets, with the sender c.
\* scheduleIncoming calls Pop, when ts is not put aside for an active sync
\* and no target is set, on the queue it has just inserted ts into: the
\* call faults if that queue is empty.
incomingPopFaults(ts) ==
    /\ FALSE \in relatedToActiveSync(ts)
    /\ nextSyncTarget = <<>>
    /\ PopFaults(Insert(syncQueue, ts))

ReceiveIncoming(c) ==
    /\ looping
    /\ call[c].pc = "send"
    /\ call' = [call EXCEPT ![c].pc = "sent"]
    /\ IF incomingPopFaults(call[c].msg)
       THEN crashed' = TRUE /\ UNCHANGED <<schedVars, stop, scheduler, trace>>
       ELSE scheduleIncoming(call[c].msg) /\ UNCHANGED procVars
    /\ nForward' = nForward + 1
    /\ unretried' = {f \in unretried : ~comesBack(f, call[c].msg)}
    /\ UNCHANGED <<peerHeads, bootstrapped, bspThresh, lk, worker, maxReports,
                   nReports, nSelect, nDispatch, nResults, failed, unitVars>>

\* A control loop that takes the first bucket of the queue as the next
\* dispatch target.
scheduleWorkSentFirstBucket ==
    LET hts == heaviestTipSet(nextSyncTarget[1]) IN
    /\ activeSyncs' = [k \in DOMAIN activeSyncs \cup {Key(hts)} |->
                          IF k = Key(hts) THEN hts ELSE activeSyncs[k]]
    /\ IF Len(syncQueue) > 0
       THEN /\ nextSyncTarget' = <<syncQueue[1]>>
            /\ syncQueue' = Tail(syncQueue)
            /\ UNCHANGED workerChan
       ELSE /\ nextSyncTarget' = <<>>
            /\ workerChan' = "nil"
            /\ UNCHANGED syncQueue
    /\ UNCHANGED activeSyncTips

\* scheduleWorkSent that leaves workerChan as it is when the queue is empty.
scheduleWorkSentKeepChan ==
    LET hts == heaviestTipSet(nextSyncTarget[1]) IN
    /\ activeSyncs' = [k \in DOMAIN activeSyncs \cup {Key(hts)} |->
                          IF k = Key(hts) THEN hts ELSE activeSyncs[k]]
    /\ IF Len(syncQueue) > 0
       THEN /\ nextSyncTarget' = <<Pop(syncQueue).bucket>>
            /\ syncQueue' = Pop(syncQueue).rest
       ELSE /\ nextSyncTarget' = <<>>
            /\ UNCHANGED syncQueue
    /\ UNCHANGED <<activeSyncTips, workerChan>>

scheduleWorkSent ==
    LET hts == heaviestTipSet(nextSyncTarget[1]) IN
    /\ activeSyncs' = [k \in DOMAIN activeSyncs \cup {Key(hts)} |->
                          IF k = Key(hts) THEN hts ELSE activeSyncs[k]]
    /\ IF Len(syncQueue) > 0
       THEN /\ nextSyncTarget' = <<Pop(syncQueue).bucket>>
            /\ syncQueue' = Pop(syncQueue).rest
            /\ UNCHANGED workerChan
       ELSE /\ nextSyncTarget' = <<>>
            /\ workerChan' = "nil"
            /\ UNCHANGED syncQueue
    /\ UNCHANGED activeSyncTips

\* A pool in which worker 1 alone receives from syncTargets.
receiverFirstOnly(w) == w = 1 /\ worker[w].pc = "idle"

\* Worker w is the one whose receive from syncTargets meets the send.  The
\* workers run the same code and nothing tells them apart, so of the
\* workers blocked in the receive the one of lowest index is taken.
receiver(w) ==
    /\ worker[w].pc = "idle"
    /\ \A v \in Workers : v < w => worker[v].pc # "idle"

\* scheduleWorkSent that calls Pop whatever the length of the queue.
workSentPopFaultsUnchecked == PopFaults(syncQueue)

\* scheduleWorkSent calls Pop in its branch len(sm.syncQueue.buckets) > 0:
\* the call faults if the queue is empty there.
workSentPopFaults == Len(syncQueue) > 0 /\ PopFaults(syncQueue)

\* sm.nextSyncTarget.heaviestTipSet(): nil when the target is nil.
targetHeaviest ==
    IF nextSyncTarget = <<>> THEN NilTipSet ELSE heaviestTipSet(nextSyncTarget[1])

\* case sm.workerChan <- sm.nextSyncTarget.heaviestTipSet(), received by
\* worker w.  The case is open whenever workerChan is not nil; with a nil
\* target the value sent is nil and scheduleWorkSent faults on hts.Key();
\* it faults as well if it calls Pop on an empty queue.
SendWork(w) ==
    /\ looping
    /\ workerChan = "syncTargets"
    /\ receiver(w)
    /\ worker' = [worker EXCEPT ![w].pc = "sync", ![w].ts = targetHeaviest]
    /\ IF nextSyncTarget # <<>> /\ ~workSentPopFaults
       THEN scheduleWorkSent /\ UNCHANGED procVars
       ELSE crashed' = TRUE /\ UNCHANGED <<schedVars, stop, scheduler, trace>>
    /\ nDispatch' = nDispatch + 1
    /\ UNCHANGED <<gateVars, nForward, nResults, failed, unretried, unitVars>>

\* A worker that reports every job as a success.
syncResultSuccess(ts, err) == [ts |-> ts, success |-> TRUE]

\* &syncResult{ts: ts, success: err == nil}
syncResult(ts, err) == [ts |-> ts, success |-> ~err]

\* sm.doSync returns in worker w, with an error or (ok) without one; the
\* worker goes on to its send on syncResults.
SyncReturns(w, ok) ==
    /\ alive
    /\ worker[w].pc = "sync"
    /\ worker' = [worker EXCEPT ![w].pc = "report",
                                ![w].err = ~ok,
                                ![w].res = syncResult(worker[w].ts, ~ok)]
    /\ UNCHANGED <<gateVars, schedVars, nForward, nDispatch, nResults, procVars, failed, unretried, unitVars>>

\* A control loop that makes the overflow bucket the dispatch target
\* whether or not one is set.
scheduleProcessResultReplaceTarget(ts, success) ==
    LET rel == PopRelated(activeSyncTips, ts) IN
    /\ activeSyncs' = [k \in DOMAIN activeSyncs \ {Key(ts)} |-> activeSyncs[k]]
    /\ activeSyncTips' = rel.rest
    /\ IF rel.found /\ success
       THEN /\ nextSyncTarget' = <<rel.bucket>>
            /\ workerChan' = "syncTargets"
            /\ UNCHANGED syncQueue
       ELSE UNCHANGED <<syncQueue, nextSyncTarget, workerChan>>

\* A control loop that treats a failed job as a successful one.
scheduleProcessResultRequeueFailed(ts, success) ==
    LET rel == PopRelated(activeSyncTips, ts) IN
    /\ activeSyncs' = [k \in DOMAIN activeSyncs \ {Key(ts)} |-> activeSyncs[k]]
    /\ activeSyncTips' = rel.rest
    /\ IF rel.found
       THEN IF nextSyncTarget = <<>>
            THEN /\ nextSyncTarget' = <<rel.bucket>>
                 /\ workerChan' = "syncTargets"
                 /\ UNCHANGED syncQueue
            ELSE /\ syncQueue' = Append(syncQueue, rel.bucket)
                 /\ UNCHANGED <<nextSyncTarget, workerChan>>
       ELSE UNCHANGED <<syncQueue, nextSyncTarget, workerChan>>

\* A control loop that keeps the active-sync entry of a failed job.
scheduleProcessResultKeepFailed(ts, success) ==
    LET rel == PopRelated(activeSyncTips, ts) IN
    /\ activeSyncs' = IF success
                      THEN [k \in DOMAIN activeSyncs \ {Key(ts)} |-> activeSyncs[k]]
                      ELSE activeSyncs
    /\ activeSyncTips' = rel.rest
    /\ IF rel.found /\ success
       THEN IF nextSyncTarget = <<>>
            THEN /\ nextSyncTarget' = <<rel.bucket>>
                 /\ workerChan' = "syncTargets"
                 /\ UNCHANGED syncQueue
            ELSE /\ syncQueue' = Append(syncQueue, rel.bucket)
                 /\ UNCHANGED <<nextSyncTarget, workerChan>>
       ELSE UNCHANGED <<syncQueue, nextSyncTarget, workerChan>>

\* A control loop that leaves the entry of a finished job in activeSyncs.
scheduleProcessResultNoDelete(ts, success) ==
    LET rel == PopRelated(activeSyncTips, ts) IN
    /\ UNCHANGED activeSyncs
    /\ activeSyncTips' = rel.rest
    /\ IF rel.found /\ success
       THEN IF nextSyncTarget = <<>>
            THEN /\ nextSyncTarget' = <<rel.bucket>>
                 /\ workerChan' = "syncTargets"
                 /\ UNCHANGED syncQueue
            ELSE /\ syncQueue' = Append(syncQueue, rel.bucket)
                 /\ UNCHANGED <<nextSyncTarget, workerChan>>
       ELSE UNCHANGED <<syncQueue, nextSyncTarget, workerChan>>

scheduleProcessResult(ts, success) ==
    LET rel == PopRelated(activeSyncTips, ts) IN
    /\ activeSyncs' = [k \in DOMAIN activeSyncs \ {Key(ts)} |-> activeSyncs[k]]
    /\ activeSyncTips' = rel.rest
    /\ IF rel.found /\ success
       THEN IF nextSyncTarget = <<>>
            THEN /\ nextSyncTarget' = <<rel.bucket>>
                 /\ workerChan' = "syncTargets"
                 /\ UNCHANGED syncQueue
            ELSE /\ syncQueue' = Append(syncQueue, rel.bucket)
                 /\ UNCHANGED <<nextSyncTarget, workerChan>>
       ELSE UNCHANGED <<syncQueue, nextSyncTarget, workerChan>>

\* case res := <-sm.syncResults, with the sender w.
ReceiveResult(w) ==
    /\ looping
    /\ worker[w].pc = "report"
    /\ scheduleProcessResult(worker[w].res.ts, worker[w].res.success)
    /\ worker' = [worker EXCEPT ![w] = idleWorker]
    /\ failed' = IF trace /\ ~worker[w].res.success
                 THEN failed \cup {worker[w].res.ts}
                 ELSE failed
    /\ unretried' = IF trace /\ ~worker[w].res.success
                    THEN unretried \cup {worker[w].res.ts}
                    ELSE unretried
    /\ nResults' = nResults + 1
    /\ UNCHANGED <<gateVars, nForward, nDispatch, procVars, unitVars>>

Next ==
    \/ \E c \in Callers, p \in Peers, ts \in TipSets : SetPeerHead(c, p, ts)
    \/ \E c \in Callers : SetPeerHeadReturn(c)
    \/ \E c \in Callers : ReceiveIncoming(c)
    \/ \E w \in Workers : SendWork(w)
    \/ \E w \in Workers, ok \in BOOLEAN : SyncReturns(w, ok)
    \/ \E w \in Workers : ReceiveResult(w)

Spec == Init /\ [][Next]_vars

\* The node whose threshold is set to BootstrapPeerThreshold.
InitQuorum == Init /\ bspThresh = BootstrapPeerThreshold
SpecQuorum == InitQuorum /\ [][Next]_vars

\* The same node, with one more SetPeerHead call made by the peers.
InitLong == InitWith(MaxReports + 1, FALSE)
SpecLong == InitLong /\ [][Next]_vars

\* The node with the constructor's threshold that hears of one peer, from
\* one goroutine: the control loop and the workers see the tip sets only,
\* in the order SetPeerHead sends them.  The history of the failed jobs
\* is kept.
NextSched ==
    \/ \E ts \in TipSets : SetPeerHead("c1", "p1", ts)
    \/ SetPeerHeadReturn("c1")
    \/ ReceiveIncoming("c1")
    \/ \E w \in Workers : SendWork(w)
    \/ \E w \in Workers, ok \in BOOLEAN : SyncReturns(w, ok)
    \/ \E w \in Workers : ReceiveResult(w)

InitSched == InitWith(MaxReports, TRUE) /\ bspThresh = 1
SpecSched == InitSched /\ [][NextSched]_vars

\* --------------------------------------------- the bucket set alone
\* sbs.Insert(ts)
InsertCall(ts) ==
    /\ last.n < MaxCalls
    /\ sbs' = Insert(sbs, ts)
    /\ last' = [op |-> "Insert", arg |-> ts, before |-> sbs, found |-> FALSE,
                ret |-> mkBucket(<<>>, 0), n |-> last.n + 1]
    /\ UNCHANGED managerVars

\* sbs.Pop() on a set that has a bucket.  On an empty set Pop panics in
\* removeBucket (make with a capacity of -1), and the callers call it on
\* a set they have just inserted into or found non-empty.
PopCall ==
    /\ last.n < MaxCalls
    /\ Len(sbs) > 0
    /\ sbs' = Pop(sbs).rest
    /\ last' = [op |-> "Pop", arg |-> NilTipSet, before |-> sbs, found |-> TRUE,
                ret |-> Pop(sbs).bucket, n |-> last.n + 1]
    /\ UNCHANGED managerVars

\* sbs.PopRelated(ts)
PopRelatedCall(ts) ==
    /\ last.n < MaxCalls
    /\ sbs' = PopRelated(sbs, ts).rest
    /\ last' = [op |-> "PopRelated", arg |-> ts, before |-> sbs,
                found |-> PopRelated(sbs, ts).found,
                ret |-> PopRelated(sbs, ts).bucket, n |-> last.n + 1]
    /\ UNCHANGED managerVars

\* sbs.Heaviest(): hts is the tip set returned, NilTipSet for nil.
HeaviestCall ==
    /\ last.n < MaxCalls
    /\ sbs' = sbs
    /\ last' = [op |-> "Heaviest", arg |-> NilTipSet, before |-> sbs, found |-> Len(sbs) > 0,
                ret |-> mkBucket(<<>>, 0), n |-> last.n + 1, hts |-> Heaviest(sbs)]
    /\ UNCHANGED managerVars

NextUnit ==
    \/ \E ts \in TipSets : InsertCall(ts)
    \/ PopCall
    \/ \E ts \in TipSets : PopRelatedCall(ts)
    \/ HeaviestCall

\* The same tip set at a greater height (null rounds below it).
later(ts) == [ts EXCEPT !.height = @ + 2]

\* The peer-head maps selectSyncTarget is called on.
HeadMaps == UNION { [P -> TipSets] : P \in (SUBSET Peers) \ {{}} }

\* selectSyncTarget on the peer heads `heads`: hts is a tip set it may
\* return.  alt is the same map with the heights of the heads of the
\* peers in L raised.
selectSyncTargetCall(heads, L) ==
    /\ last.n < MaxCalls
    /\ \E t \in selectSyncTarget(heads) :
          last' = [op |-> "selectSyncTarget", heads |-> heads,
                   alt |-> [p \in DOMAIN heads |->
                              IF \E q \in L : Equals(heads[q], heads[p])
                              THEN later(heads[p]) ELSE heads[p]],
                   hts |-> t, n |-> last.n + 1]
    /\ UNCHANGED <<sbs, managerVars>>

NextSelect == \E heads \in HeadMaps, L \in SUBSET Peers : selectSyncTargetCall(heads, L \cap DOMAIN heads)

\* A syncBucketSet that starts empty and takes any calls.
InitUnit == Init /\ bspThresh = 1
SpecUnit == InitUnit /\ [][NextUnit]_vars

\* selectSyncTarget on any peer heads.
SpecSelect == InitUnit /\ [][NextSelect]_vars

\* The goroutines blocked on a channel operation whose other side is
\* ready are scheduled: a caller's send on incomingTipSets is received, a
\* returned send lets SetPeerHead return, an open workerChan with a
\* waiting worker is served, and a worker's send on syncResults is
\* received.  Nothing is assumed of the time doSync takes.
Fairness ==
    /\ \A c \in Callers : WF_vars(ReceiveIncoming(c)) /\ WF_vars(SetPeerHeadReturn(c))
    /\ \A w \in Workers : WF_vars(SendWork(w)) /\ WF_vars(ReceiveResult(w))

\* The node with the constructor's threshold to which one SetPeerHead
\* call is made.
InitSingle == InitWith(1, FALSE) /\ bspThresh = 1
SpecSingle == InitSingle /\ [][Next]_vars /\ Fairness

\* The node with the constructor's threshold that hears of one peer from
\* concurrent goroutines, with the channel operations scheduled and
\* nothing assumed of doSync.  Stop is not called.
NextFair ==
    \/ \E c \in Callers, ts \in TipSets : SetPeerHead(c, "p1", ts)
    \/ \E c \in Callers : SetPeerHeadReturn(c)
    \/ \E c \in Callers : ReceiveIncoming(c)
    \/ \E w \in Workers : SendWork(w)
    \/ \E w \in Workers, ok \in BOOLEAN : SyncReturns(w, ok)
    \/ \E w \in Workers : ReceiveResult(w)

InitFair == Init /\ bspThresh = 1
SpecFair == InitFair /\ [][NextFair]_vars /\ Fairness

\* Every doSync call returns.
FairnessSync == \A w \in Workers : WF_vars(\E ok \in BOOLEAN : SyncReturns(w, ok))

\* The node with the constructor's threshold, with the history of the
\* failed jobs kept, on which every doSync call returns.
InitHist == InitWith(MaxReports, TRUE) /\ bspThresh = 1
SpecHist == InitHist /\ [][Next]_vars /\ Fairness /\ FairnessSync

\* The doSync calls of all workers but one return; the call of that one
\* may run forever.
FairnessButOne ==
    \E s \in Workers :
        \A w \in Workers \ {s} : WF_vars(\E ok \in BOOLEAN : SyncReturns(w, ok))

\* The node with the constructor's threshold on which one worker's doSync
\* call may never return.
InitStuck == Init /\ bspThresh = 1
SpecStuck == InitStuck /\ [][Next]_vars /\ Fairness /\ FairnessButOne

\* ------------------------------------------------- stop and panic
\* Stop: close(sm.stop).  A second close panics, so Stop is called once.
Stop ==
    /\ alive
    /\ stop = "open"
    /\ stop' = "closed"
    /\ UNCHANGED <<gateVars, schedVars, worker, nForward, nDispatch, nResults,
                   scheduler, crashed, trace, failed, unretried, unitVars>>

\* case <-sm.stop: the control loop returns.  select takes any of its
\* ready cases, so the loop may serve the other channels before this one.
schedulerReturns ==
    /\ looping
    /\ stop = "closed"
    /\ scheduler' = "returned"
    /\ UNCHANGED <<gateVars, schedVars, worker, nForward, nDispatch, nResults,
                   stop, crashed, trace, failed, unretried, unitVars>>

\* sm.doSync panics in worker w.  syncWorker has no deferred recover, so
\* the panic unwinds the goroutine and the runtime ends the process: no
\* goroutine takes a step afterwards.
SyncPanics(w) ==
    /\ alive
    /\ worker[w].pc = "sync"
    /\ worker' = [worker EXCEPT ![w].pc = "panic"]
    /\ crashed' = TRUE
    /\ UNCHANGED <<gateVars, schedVars, nForward, nDispatch, nResults,
                   stop, scheduler, trace, failed, unretried, unitVars>>

\* Goroutine c calls IsBootstrapped and comes to sm.lk.Lock().
IsBootstrappedCall(c) ==
    /\ alive
    /\ call[c].pc = "idle"
    /\ call' = [call EXCEPT ![c].pc = "lock"]
    /\ UNCHANGED <<peerHeads, bootstrapped, bspThresh, lk, maxReports, nReports, nSelect,
                   schedVars, worker, nForward, nDispatch, nResults, procVars,
                   failed, unretried, unitVars>>

\* The call takes the mutex, reads sm.bootstrapped, releases the mutex
\* and returns.
IsBootstrappedReturn(c) ==
    /\ alive
    /\ call[c].pc = "lock"
    /\ lockFree
    /\ call' = [call EXCEPT ![c] = idleCall]
    /\ UNCHANGED <<peerHeads, bootstrapped, bspThresh, lk, maxReports, nReports, nSelect,
                   schedVars, worker, nForward, nDispatch, nResults, procVars,
                   failed, unretried, unitVars>>

\* The node with the constructor's threshold that hears of one peer from
\* goroutine c1 while goroutine c2 calls IsBootstrapped; Stop may be
\* called.
NextObs ==
    \/ \E ts \in TipSets : SetPeerHead("c1", "p1", ts)
    \/ SetPeerHeadReturn("c1")
    \/ ReceiveIncoming("c1")
    \/ \E w \in Workers : SendWork(w)
    \/ \E w \in Workers, ok \in BOOLEAN : SyncReturns(w, ok)
    \/ \E w \in Workers : ReceiveResult(w)
    \/ Stop
    \/ schedulerReturns
    \/ IsBootstrappedCall("c2")
    \/ IsBootstrappedReturn("c2")

InitObs == Init /\ bspThresh = 1
SpecObs == InitObs /\ [][NextObs]_vars

NextStop ==
    \/ Next
    \/ Stop
    \/ schedulerReturns
    \/ \E w \in Workers : SyncPanics(w)

\* The node with the constructor's threshold, on which Stop may be called
\* and doSync may panic.
InitStop == Init /\ bspThresh = 1
SpecStop == InitStop /\ [][NextStop]_vars

\* ------------------------------------------------------------ claims
\* Two tip sets are same-chain-related: equal, or the parents of one are
\* the block identifiers of the other.
sameChainRelated(a, b) ==
    \/ Equals(a, b)
    \/ CidArrsEqual(Parents(a), Cids(b))
    \/ CidArrsEqual(Parents(b), Cids(a))

\* Two buckets are same-chain-related: a member of one is related to a
\* member of the other.
relatedBuckets(b1, b2) ==
    \E i \in 1..Len(b1.tips), j \in 1..Len(b2.tips) : sameChainRelated(b1.tips[i], b2.tips[j])

\* No two buckets of a bucket set are same-chain-related.
partitioned(buckets) ==
    \A i, j \in 1..Len(buckets) : i # j => ~relatedBuckets(buckets[i], buckets[j])

\* The tip sets held by the buckets of a bucket set.
members(buckets) ==
    UNION { { buckets[i].tips[j] : j \in 1..Len(buckets[i].tips) } : i \in 1..Len(buckets) }

\* The worker whose receive from syncTargets this step completes.
workSentTo(w) == worker[w].pc = "idle" /\ worker'[w].pc = "sync"

\* The worker whose result the control loop processes in this step.
resultFrom(w) == worker[w].pc = "report" /\ worker'[w].pc = "idle"

\* C1: the active-sync set never holds two entries whose tip sets are
\* same-chain-related (equal, or one the parent of the other).
C1_SingleActiveSyncPerLineage ==
    \A k1, k2 \in DOMAIN activeSyncs :
        k1 # k2 => ~sameChainRelated(activeSyncs[k1], activeSyncs[k2])

\* C2: no two workers execute the Sync Executor at the same time on equal
\* tip sets.
C2_NoConcurrentSyncOfEqualTipSets ==
    \A w1, w2 \in Workers :
        (w1 # w2 /\ worker[w1].pc = "sync" /\ worker[w2].pc = "sync")
            => ~Equals(worker[w1].ts, worker[w2].ts)

\* C3: the active-sync set has an entry for a tip set exactly while a
\* worker holds that tip set's job: every worker executing the Sync
\* Executor has its tip set in the set, and every entry of the set is the
\* tip set of a worker whose result has not been processed.
C3_ActiveEntryWhileExecuting ==
    /\ \A w \in Workers :
          worker[w].pc = "sync" => Key(worker[w].ts) \in DOMAIN activeSyncs
    /\ \A k \in DOMAIN activeSyncs :
          \E w \in Workers : worker[w].pc \in {"sync", "report"} /\ Key(worker[w].ts) = k

\* C4: when the result of a successful job on T1 is processed, every tip
\* set T2 held in the overflow set whose parents are T1's block
\* identifiers (it arrived while T1 was active) is, after the step, in the
\* dispatch target or in the pending queue.
C4_OverflowReplay ==
    [][\A w \in Workers :
          (resultFrom(w) /\ worker[w].res.success) =>
             \A t2 \in members(activeSyncTips) :
                CidArrsEqual(Parents(t2), Cids(worker[w].ts))
                   => t2 \in members(syncQueue') \cup members(nextSyncTarget')]_vars

\* C5: no two buckets of the pending queue are same-chain-related, and no
\* two buckets of the overflow set are.
C5_BucketSetsPartitioned ==
    partitioned(syncQueue) /\ partitioned(activeSyncTips)

\* C6: a bucket is handed to a worker only when no bucket awaiting
\* dispatch in the pending queue has a strictly heavier heaviest member.
C6_HeavierDispatchedFirst ==
    [][\A w \in Workers :
          workSentTo(w) =>
             \A i \in 1..Len(syncQueue) :
                ~GreaterThan(ParentWeight(heaviestTipSet(syncQueue[i])),
                             ParentWeight(heaviestTipSet(nextSyncTarget[1])))]_vars

\* The peers whose latest recorded head has a height above 0.
quorumPeers == {p \in DOMAIN peerHeads : Height(peerHeads[p]) > 0}

\* C7: while the node is not bootstrapped and fewer peers than the
\* threshold have a recorded head of height > 0, no SetPeerHead call sends
\* or has sent a tip set to the control loop and no worker has received
\* one; with BootstrapPeerThreshold, this is so as long as one peer alone
\* has reported.
C7_BootstrapGating ==
    /\ (~bootstrapped /\ Cardinality(quorumPeers) < bspThresh) =>
          /\ \A c \in Callers : call[c].pc = "idle"
          /\ nForward = 0
          /\ nDispatch = 0
    /\ (bspThresh = BootstrapPeerThreshold /\ Cardinality(DOMAIN peerHeads) <= 1) =>
          /\ nForward = 0
          /\ nDispatch = 0

\* One peer has reported three heads of height > 0 to a node with
\* BootstrapPeerThreshold.
C7_Witness ==
    /\ bspThresh = BootstrapPeerThreshold
    /\ nReports >= 3
    /\ DOMAIN peerHeads = {"p1"}
    /\ quorumPeers = {"p1"}
    /\ ~bootstrapped

\* C8: with BootstrapPeerThreshold, the call that records the second peer
\* of height > 0 selects, and sends
\* one tip set, a recorded head of the greatest weight among the recorded
\* heads.  Nothing is dispatched before it is sent; once it is sent and
\* while no other tip set has been, it is the one member of the dispatch
\* target, offered to an idle worker, until its dispatch, which is the
\* only one.
C8_QuorumSelection ==
    /\ \A c \in Callers :
          (call[c].boot /\ call[c].pc \in {"send", "sent"}) =>
             /\ Cardinality(quorumPeers) >= BootstrapPeerThreshold
             /\ \E p \in DOMAIN peerHeads : peerHeads[p] = call[c].msg
             /\ \A p \in DOMAIN peerHeads :
                   ParentWeight(call[c].msg) >= ParentWeight(peerHeads[p])
             /\ nForward = (IF call[c].pc = "send" THEN 0 ELSE 1)
             /\ (call[c].pc = "sent" /\ nDispatch = 0) =>
                   nextSyncTarget = <<mkBucket(<<call[c].msg>>, 1)>>
             /\ (call[c].pc = "sent" /\ nDispatch = 1) =>
                   \A w \in Workers : worker[w].pc # "idle" => worker[w].ts = call[c].msg
    /\ (~bootstrapped /\ Cardinality(quorumPeers) >= BootstrapPeerThreshold) =>
          \E c \in Callers : call[c].boot /\ call[c].pc \in {"send", "sent"}
    /\ (nForward = 0) => (nDispatch = 0 /\ nextSyncTarget = <<>>)
    /\ (nForward = 1) =>
          /\ nDispatch <= 1
          /\ syncQueue = <<>>
          /\ activeSyncTips = <<>>
          /\ (nDispatch = 0) =>
                /\ nextSyncTarget # <<>>
                /\ workerChan = "syncTargets"
                /\ \E w \in Workers : worker[w].pc = "idle"
          /\ (nDispatch = 1) => (nextSyncTarget = <<>> /\ workerChan = "nil")

\* The quorum is reached with two sibling heads, which form two buckets,
\* and the selected tip set has been dispatched.
C8_Witness ==
    \E c \in Callers :
        /\ call[c].boot
        /\ call[c].pc = "sent"
        /\ nDispatch = 1
        /\ \E p, q \in DOMAIN peerHeads :
              /\ ~sameChainRelated(peerHeads[p], peerHeads[q])
              /\ ParentWeight(peerHeads[p]) < ParentWeight(peerHeads[q])

\* C9: the initial sync target is selected once: selectSyncTarget runs at
\* most once and has run when the node is bootstrapped, and once the flag
\* is set it stays set and no selection follows.
C9_BootstrapOnce ==
    /\ [](/\ nSelect <= 1
          /\ bootstrapped => nSelect = 1
          /\ (nSelect = 1 /\ ~bootstrapped) =>
                \E c \in Callers : call[c].boot /\ call[c].pc \in {"send", "sent"})
    /\ [][bootstrapped => (bootstrapped' /\ nSelect' = nSelect)]_vars

\* A bootstrapped node that has taken further reports after the one that
\* reached the quorum.
C9_Witness ==
    /\ bootstrapped
    /\ nSelect = 1
    /\ nForward >= 2
    /\ bspThresh = BootstrapPeerThreshold

\* C10: on a bootstrapped node a SetPeerHead call goes on to send, the tip
\* set it sends is the one reported, and the peer's registry entry is
\* that tip set.
C10_ForwardAfterBootstrap ==
    /\ [](\A c \in Callers :
            (call[c].pc \in {"send", "sent"} /\ ~call[c].boot) =>
               /\ bootstrapped
               /\ call[c].msg = call[c].ts
               /\ call[c].peer \in DOMAIN peerHeads
               /\ peerHeads[call[c].peer] = call[c].ts)
    /\ [][(bootstrapped /\ nReports' = nReports + 1) =>
             \E c \in Callers :
                /\ call[c].pc = "idle"
                /\ call'[c].pc = "send"
                /\ ~call'[c].boot]_vars

\* A bootstrapped node with one recorded peer has sent a reported head of
\* height 0 to the control loop.
C10_Witness ==
    \E c \in Callers :
        /\ call[c].pc = "sent"
        /\ ~call[c].boot
        /\ Height(call[c].ts) = 0
        /\ Cardinality(DOMAIN peerHeads) = 1

\* C11: on a node with threshold 1 and an empty registry, one SetPeerHead
\* call with a tip set of height > 0 sends that tip set to the control
\* loop, the node is bootstrapped once the call has returned, and the tip
\* set is dispatched: every dispatch is of that tip set, there is at most
\* one, and one follows the call.
C11_SingleReportDispatch ==
    /\ [](\A p \in DOMAIN peerHeads :
            Height(peerHeads[p]) > 0 =>
               /\ \A c \in Callers :
                     call[c].pc \in {"send", "sent"} =>
                        (call[c].boot /\ call[c].msg = peerHeads[p])
               /\ (\A c \in Callers : call[c].pc = "idle") => bootstrapped
               /\ nDispatch <= 1
               /\ \A w \in Workers : worker[w].pc # "idle" => worker[w].ts = peerHeads[p])
    /\ (\E p \in DOMAIN peerHeads : Height(peerHeads[p]) > 0) ~> (nDispatch = 1)

\* The call has returned, the node is bootstrapped and the worker is
\* running doSync on the reported tip set.
C11_Witness ==
    /\ bspThresh = 1
    /\ nReports = 1
    /\ \A c \in Callers : call[c].pc = "idle"
    /\ bootstrapped
    /\ nDispatch = 1
    /\ \E p \in DOMAIN peerHeads :
          /\ Height(peerHeads[p]) > 0
          /\ worker[1].pc = "sync"
          /\ worker[1].ts = peerHeads[p]

\* Two tip sets are siblings: same parents, not equal, neither the parent
\* of the other.
siblings(a, b) ==
    /\ CidArrsEqual(Parents(a), Parents(b))
    /\ ~sameChainRelated(a, b)

\* The workers blocked in their receive from syncTargets.
idleWorkers == {w \in Workers : worker[w].pc = "idle"}

\* C12: two sibling tip sets never share the bucket one of them starts,
\* and when one worker is free and a tip set is handed to it, no sibling
\* of that tip set of greater weight is left waiting in the pending
\* queue: of two siblings awaiting dispatch the heavier is dispatched
\* first, whichever was reported first.
C12_HeavierSiblingFirst ==
    /\ [](\A a, b \in TipSets : siblings(a, b) => ~sameChainAs(mkBucket(<<a>>, 1), b))
    /\ [][\A w \in Workers :
             (workSentTo(w) /\ idleWorkers = {w}) =>
                \A t \in members(syncQueue) :
                   siblings(t, worker'[w].ts) =>
                      ~GreaterThan(ParentWeight(t), ParentWeight(worker'[w].ts))]_vars

\* The control loop receives the tip set caller c sends in this step.
incomingFrom(c) == call[c].pc = "send" /\ call'[c].pc = "sent"

\* A worker holds a job on a tip set same-chain-related to ts.
jobRelatedTo(ts) ==
    \E w \in Workers :
        worker[w].pc \in {"sync", "report"} /\ sameChainRelated(worker[w].ts, ts)

\* ts is equal to, or a child of, a tip set whose job failed and whose
\* failed result the control loop has processed.
relatedToFailed(ts) ==
    \E f \in failed : Equals(ts, f) \/ CidArrsEqual(Parents(ts), Cids(f))

\* C13: a tip set that arrives after the failed result of a related tip
\* set (equal, or its parent) was processed, while no job of that lineage
\* is running, is not put in the overflow set: after the step it is a
\* member of the dispatch target or of a bucket of the pending queue, and
\* a dispatch target is offered on the workers' channel.  Nothing stays
\* in the pending queue or the dispatch target forever.
C13_RelatedAfterFailure ==
    /\ [][\A c \in Callers :
             (incomingFrom(c) /\ relatedToFailed(call[c].msg) /\ ~jobRelatedTo(call[c].msg)) =>
                /\ activeSyncTips' = activeSyncTips
                /\ call[c].msg \in members(nextSyncTarget') \cup members(syncQueue')
                /\ nextSyncTarget' # <<>>
                /\ workerChan' = "syncTargets"]_vars
    /\ <>[](syncQueue = <<>> /\ nextSyncTarget = <<>>)

\* The one job dispatched has failed and its result was processed; a
\* child of its tip set, forwarded since, is the dispatch target offered
\* to the idle workers.
C13_Witness ==
    /\ failed # {}
    /\ \A w \in Workers : worker[w].pc = "idle"
    /\ nextSyncTarget # <<>>
    /\ relatedToFailed(heaviestTipSet(nextSyncTarget[1]))
    /\ \E f \in failed : CidArrsEqual(Parents(heaviestTipSet(nextSyncTarget[1])), Cids(f))
    /\ workerChan = "syncTargets"
    /\ nForward = 3
    /\ nDispatch = 1

\* Worker w waits on a channel and the operation it waits in can
\* complete: its receive from syncTargets (the control loop hands the
\* target to a waiting worker) or its send on syncResults.
canProceed(w) ==
    \/ worker[w].pc = "idle" /\ \E v \in Workers : ENABLED SendWork(v)
    \/ worker[w].pc = "report" /\ ENABLED ReceiveResult(w)

\* C14: once Stop has been called and the control loop has returned, no
\* worker is left waiting for a dispatch target or in the send of its
\* result with no step to take: a worker in one of these waits can leave
\* it.
C14_StopReleasesWorkers ==
    (alive /\ stop = "closed" /\ scheduler = "returned") =>
        \A w \in Workers : worker[w].pc \in {"idle", "report"} => canProceed(w)

\* C15: while a SetPeerHead call waits in its send to the control loop, a
\* caller that is outside SetPeerHead can make a call for another peer:
\* the call records that peer's head and proceeds.
C15_ReportsIndependent ==
    \A c, d \in Callers :
        (c # d /\ call[c].pc = "send" /\ call[d].pc = "idle" /\ nReports < maxReports) =>
            \E p \in Peers \ {call[c].peer}, ts \in TipSets : ENABLED SetPeerHead(d, p, ts)

\* doSync returns in worker w in this step.
syncDoneIn(w) == worker[w].pc = "sync" /\ worker'[w].pc = "report"

\* The workers holding a job whose result has not been received.
busyWorkers == {w \in Workers : worker[w].pc \in {"sync", "report"}}

\* C16: every tip set handed to a worker gets one result: the dispatches
\* are the results received plus the jobs still held by workers.  Once
\* doSync has returned the worker sends a result that carries the tip set
\* it received and success = FALSE exactly when doSync returned an error,
\* and the control loop can receive it.  The return of doSync and the
\* result change nothing of the registry or of a SetPeerHead call.
C16_OneResultPerDispatch ==
    /\ [](/\ nDispatch = nResults + Cardinality(busyWorkers)
          /\ \A w \in Workers :
                worker[w].pc = "report" =>
                   /\ worker[w].res.ts = worker[w].ts
                   /\ worker[w].res.success = ~worker[w].err
                   /\ ENABLED ReceiveResult(w))
    /\ [][\A w \in Workers :
             (syncDoneIn(w) \/ resultFrom(w)) =>
                UNCHANGED <<peerHeads, bootstrapped, lk, call>>]_vars

\* A worker is about to report the failure of its job on {b3} while a
\* result has been received before and a SetPeerHead call is in its send.
C16_Witness ==
    /\ nResults >= 1
    /\ \E c \in Callers : call[c].pc = "send"
    /\ \E w \in Workers :
          /\ worker[w].pc = "report"
          /\ worker[w].err
          /\ worker[w].res = [ts |-> mkTipSet({"b3"}, {"a"}, 2, 3), success |-> FALSE]

\* doSync panics in worker w in this step.
panicsIn(w) == worker[w].pc = "sync" /\ worker'[w].pc = "panic"

\* C17: a panic of doSync in one worker is contained: after the step the
\* process is alive, the control loop is where it was and the other
\* workers are as they were.
C17_PanicContained ==
    [][\A w \in Workers :
          panicsIn(w) =>
             /\ alive'
             /\ scheduler' = scheduler
             /\ \A v \in Workers \ {w} : worker'[v] = worker[v]]_vars

\* Something awaits dispatch.
pendingWork == nextSyncTarget # <<>> \/ syncQueue # <<>>

\* C18: whatever the workers' jobs do (fail, or one of them never
\* return), the control loop can receive every tip set sent to it and
\* every result, and it hands the dispatch target to a worker whenever
\* one is free; with the doSync calls of all workers but one returning,
\* whatever awaits dispatch is handed out.
C18_StuckWorkerIsolated ==
    /\ [](/\ \A c \in Callers : call[c].pc = "send" => ENABLED ReceiveIncoming(c)
          /\ \A w \in Workers : worker[w].pc = "report" => ENABLED ReceiveResult(w)
          /\ (nextSyncTarget # <<>> /\ idleWorkers # {}) =>
                \E v \in Workers : ENABLED SendWork(v))
    /\ pendingWork ~> ~pendingWork

\* Worker 1 is in doSync, and while it is two more tip sets were
\* dispatched to the other workers, one of which has reported.
C18_Witness ==
    /\ worker[1].pc = "sync"
    /\ worker[2].pc = "sync"
    /\ worker[3].pc = "idle"
    /\ ~sameChainRelated(worker[1].ts, worker[2].ts)
    /\ nDispatch = 3
    /\ nResults = 1
    /\ ~pendingWork

\* C19: the control loop rejects no tip set: right after it has received
\* a tip set, a tip set equal to it is a member of the overflow set, of
\* the dispatch target or of a bucket of the pending queue.
C19_NoInputRejected ==
    [][\A c \in Callers :
          incomingFrom(c) =>
             \E t \in members(activeSyncTips') \cup members(nextSyncTarget')
                         \cup members(syncQueue') :
                Equals(t, call[c].msg)]_vars

\* The control loop has received a tip set that joined the bucket of a
\* related tip set in the dispatch target, while a job is active.
C19_Witness ==
    \E c \in Callers :
        /\ call[c].pc = "sent"
        /\ nextSyncTarget # <<>>
        /\ Len(nextSyncTarget[1].tips) = 2
        /\ nextSyncTarget[1].tips[2] = call[c].msg
        /\ DOMAIN activeSyncs # {}

\* C20: when the control loop receives a tip set that is same-chain-
\* related to an entry of the active-sync set (equal to it, its child or
\* its parent), the tip set is inserted into the overflow set and the
\* pending queue, the dispatch target and the active-sync set stay as
\* they are.
C20_RelatedToActiveGoesToOverflow ==
    [][\A c \in Callers :
          (/\ incomingFrom(c)
           /\ \E k \in DOMAIN activeSyncs :
                 sameChainRelated(call[c].msg, activeSyncs[k])) =>
             /\ activeSyncTips' = Insert(activeSyncTips, call[c].msg)
             /\ UNCHANGED <<syncQueue, nextSyncTarget, activeSyncs>>]_vars

\* The sequence seq without its element of index i.
dropAt(seq, i) == [j \in 1..(Len(seq) - 1) |-> IF j < i THEN seq[j] ELSE seq[j + 1]]

\* Bucket b has a member same-chain-related to ts.
bucketRelatedTo(b, ts) == \E j \in 1..Len(b.tips) : sameChainRelated(b.tips[j], ts)

\* C21: when the result of a successful job on T is processed and the
\* overflow set holds a bucket related to T, a bucket related to T leaves
\* the overflow set; it becomes the dispatch target when none is set, and
\* otherwise it is added at the end of the pending queue and the dispatch
\* target stays as it is.
C21_SuccessPromotesOverflow ==
    [][\A w \in Workers :
          (/\ resultFrom(w)
           /\ worker[w].res.success
           /\ \E i \in 1..Len(activeSyncTips) :
                 bucketRelatedTo(activeSyncTips[i], worker[w].res.ts)) =>
             \E i \in 1..Len(activeSyncTips) :
                /\ bucketRelatedTo(activeSyncTips[i], worker[w].res.ts)
                /\ activeSyncTips' = dropAt(activeSyncTips, i)
                /\ IF nextSyncTarget = <<>>
                   THEN /\ nextSyncTarget' = <<activeSyncTips[i]>>
                        /\ workerChan' = "syncTargets"
                        /\ syncQueue' = syncQueue
                   ELSE /\ nextSyncTarget' = nextSyncTarget
                        /\ syncQueue' = Append(syncQueue, activeSyncTips[i])]_vars

\* Three tip sets came in and the first was dispatched; its child waited
\* in the overflow set and the last one, unrelated, is the dispatch
\* target: the success of the job has moved the child's bucket to the
\* pending queue behind that target.
C21_Witness ==
    \E c \in Callers :
        /\ call[c].pc = "sent"
        /\ nForward = 3
        /\ nDispatch = 1
        /\ nResults = 1
        /\ nextSyncTarget = <<mkBucket(<<call[c].msg>>, 1)>>
        /\ Len(syncQueue) = 1
        /\ ~bucketRelatedTo(syncQueue[1], call[c].msg)
        /\ activeSyncTips = <<>>

\* C22: when the result of a failed job on T is processed, the entry of
\* T leaves the active-sync set and the other entries stay; if the
\* overflow set holds a bucket related to T, one such bucket leaves it,
\* and otherwise the overflow set is unchanged; the pending queue and
\* the dispatch target are unchanged, so the bucket is discarded.
C22_FailureDiscardsOverflow ==
    [][\A w \in Workers :
          (resultFrom(w) /\ ~worker[w].res.success) =>
             /\ DOMAIN activeSyncs' = DOMAIN activeSyncs \ {Key(worker[w].res.ts)}
             /\ \A k \in DOMAIN activeSyncs' : activeSyncs'[k] = activeSyncs[k]
             /\ UNCHANGED <<syncQueue, nextSyncTarget, workerChan>>
             /\ IF \E i \in 1..Len(activeSyncTips) :
                       bucketRelatedTo(activeSyncTips[i], worker[w].res.ts)
                THEN \E i \in 1..Len(activeSyncTips) :
                        /\ bucketRelatedTo(activeSyncTips[i], worker[w].res.ts)
                        /\ activeSyncTips' = dropAt(activeSyncTips, i)
                ELSE activeSyncTips' = activeSyncTips]_vars

\* The job on a tip set has failed; the head reported since, its child,
\* came in during the job and is in no bucket any more.
C22_Witness ==
    /\ nForward = 2
    /\ nDispatch = 1
    /\ nResults = 1
    /\ \E f \in failed, p \in DOMAIN peerHeads :
          /\ CidArrsEqual(Parents(peerHeads[p]), Cids(f))
          /\ failed = {f}
    /\ DOMAIN activeSyncs = {}
    /\ activeSyncTips = <<>>
    /\ syncQueue = <<>>
    /\ nextSyncTarget = <<>>

\* C23: no tip set is dispatched again after its job has failed unless a
\* tip set equal or related to it has come in to the control loop since
\* the failure was processed.
C23_NoAutomaticRetry ==
    [][\A w \in Workers :
          workSentTo(w) => \A f \in unretried : ~Equals(f, worker'[w].ts)]_vars

\* The greatest weight among the members of bucket b.
topWeight(b) ==
    CHOOSE x \in {ParentWeight(b.tips[j]) : j \in 1..Len(b.tips)} :
        \A j \in 1..Len(b.tips) : ~GreaterThan(ParentWeight(b.tips[j]), x)

\* C24: a dispatch hands to one worker a member of the dispatch-target
\* bucket of greatest weight and adds that tip set, and nothing else, to
\* the active-sync set under its key.  If the pending queue is not empty
\* a bucket of greatest top weight leaves it and becomes the dispatch
\* target; otherwise the target is cleared and the workers' channel is
\* closed to the loop's send.  No target is set, and nothing is offered,
\* until a tip set comes in or a successful result promotes an overflow
\* bucket.
C24_DispatchStep ==
    /\ [](nextSyncTarget = <<>> <=> workerChan = "nil")
    /\ [][\A w \in Workers :
             workSentTo(w) =>
                /\ worker'[w].ts \in members(nextSyncTarget)
                /\ ParentWeight(worker'[w].ts) = topWeight(nextSyncTarget[1])
                /\ \A v \in Workers \ {w} : worker'[v] = worker[v]
                /\ DOMAIN activeSyncs' = DOMAIN activeSyncs \cup {Key(worker'[w].ts)}
                /\ activeSyncs'[Key(worker'[w].ts)] = worker'[w].ts
                /\ \A k \in DOMAIN activeSyncs \ {Key(worker'[w].ts)} :
                      activeSyncs'[k] = activeSyncs[k]
                /\ activeSyncTips' = activeSyncTips
                /\ IF syncQueue # <<>>
                   THEN \E i \in 1..Len(syncQueue) :
                           /\ nextSyncTarget' = <<syncQueue[i]>>
                           /\ syncQueue' = dropAt(syncQueue, i)
                           /\ \A j \in 1..Len(syncQueue) :
                                 topWeight(syncQueue[j]) <= topWeight(syncQueue[i])
                           /\ workerChan' = "syncTargets"
                   ELSE /\ nextSyncTarget' = <<>>
                        /\ syncQueue' = <<>>
                        /\ workerChan' = "nil"]_vars
    /\ [][(nextSyncTarget = <<>> /\ nextSyncTarget' # <<>>) =>
             \/ \E c \in Callers : incomingFrom(c)
             \/ \E w \in Workers : resultFrom(w) /\ worker[w].res.success]_vars

\* One tip set was dispatched while two unrelated tip sets waited in the
\* pending queue, the lighter first: the heavier, the last one reported,
\* is now the dispatch target and the lighter is still in the queue.
C24_Witness ==
    /\ nForward = 3
    /\ nDispatch = 1
    /\ worker[1].pc = "sync"
    /\ Len(syncQueue) = 1
    /\ \E p \in DOMAIN peerHeads :
          /\ nextSyncTarget = <<mkBucket(<<peerHeads[p]>>, 1)>>
          /\ ParentWeight(peerHeads[p]) > topWeight(syncQueue[1])

\* C25: a tip set that comes in and is related to no entry of the
\* active-sync set is added to the dispatch-target bucket when it is
\* same-chain-related to it, the pending queue staying as it is;
\* otherwise it is inserted into the pending queue, and when no dispatch
\* target is set a bucket of greatest top weight is popped from the queue
\* at once and becomes the target.  Whatever comes in, a dispatch target
\* that is set stays the target: its members stay and at most the
\* arrival is added to them.
C25_IncomingUnrelatedToActive ==
    /\ [][\A c \in Callers :
             (/\ incomingFrom(c)
              /\ \A k \in DOMAIN activeSyncs :
                    ~sameChainRelated(call[c].msg, activeSyncs[k])) =>
                /\ UNCHANGED <<activeSyncs, activeSyncTips>>
                /\ IF nextSyncTarget # <<>> /\ bucketRelatedTo(nextSyncTarget[1], call[c].msg)
                   THEN /\ nextSyncTarget' = <<add(nextSyncTarget[1], call[c].msg)>>
                        /\ syncQueue' = syncQueue
                   ELSE IF nextSyncTarget # <<>>
                   THEN /\ nextSyncTarget' = nextSyncTarget
                        /\ syncQueue' = Insert(syncQueue, call[c].msg)
                   ELSE \E i \in 1..Len(Insert(syncQueue, call[c].msg)) :
                           LET q == Insert(syncQueue, call[c].msg) IN
                           /\ nextSyncTarget' = <<q[i]>>
                           /\ syncQueue' = dropAt(q, i)
                           /\ \A j \in 1..Len(q) : topWeight(q[j]) <= topWeight(q[i])
                           /\ workerChan' = "syncTargets"]_vars
    /\ [][\A c \in Callers :
             (incomingFrom(c) /\ nextSyncTarget # <<>>) =>
                /\ nextSyncTarget' # <<>>
                /\ \/ nextSyncTarget'[1].tips = nextSyncTarget[1].tips
                   \/ nextSyncTarget'[1].tips = Append(nextSyncTarget[1].tips, call[c].msg)]_vars

\* A tip set heavier than the dispatch target and unrelated to it has
\* come in while a job is active: it waits in the pending queue and the
\* lighter target is still the target.
C25_Witness ==
    \E c \in Callers :
        /\ call[c].pc = "sent"
        /\ DOMAIN activeSyncs # {}
        /\ nextSyncTarget # <<>>
        /\ ~bucketRelatedTo(nextSyncTarget[1], call[c].msg)
        /\ ParentWeight(call[c].msg) > topWeight(nextSyncTarget[1])
        /\ syncQueue = <<mkBucket(<<call[c].msg>>, 1)>>

\* C26: every tip set held in the overflow set is same-chain-related to
\* an entry of the active-sync set: once the result of the job on T has
\* been processed no tip set is left in the overflow set on account of T.
C26_OverflowRelatedToActive ==
    \A t \in members(activeSyncTips) :
        \E k \in DOMAIN activeSyncs : sameChainRelated(t, activeSyncs[k])

\* C27: on a bucket set that starts empty, after any calls of Insert, Pop
\* and PopRelated no two buckets are same-chain-related, also after the
\* insertion of a tip set related to members of two buckets.
C27_BucketSetPartitioned == partitioned(sbs)

\* Indices of the buckets of a set that have a member related to ts, and
\* the least of them.
relatedAt(buckets, ts) == {i \in 1..Len(buckets) : bucketRelatedTo(buckets[i], ts)}
leastOf(S) == CHOOSE x \in S : \A y \in S : x <= y

\* C28: Insert(ts) adds ts to the first bucket in order that has a member
\* related to ts: its counter goes up by one and ts is appended to its
\* members unless an equal member is there, in which case the members stay
\* as they are.  With no related bucket a bucket holding ts alone, with
\* counter 1, is appended.  The other buckets stay as they are.  No bucket
\* ever holds two equal tip sets and every counter is at least the number
\* of members.
C28_InsertFirstRelated ==
    /\ last.op = "Insert" =>
          LET rel == relatedAt(last.before, last.arg) IN
          IF rel = {}
          THEN sbs = Append(last.before, [tips |-> <<last.arg>>, count |-> 1])
          ELSE LET i == leastOf(rel)
                   old == last.before[i] IN
               /\ Len(sbs) = Len(last.before)
               /\ \A j \in 1..Len(sbs) : j # i => sbs[j] = last.before[j]
               /\ sbs[i].count = old.count + 1
               /\ sbs[i].tips =
                     IF \E m \in 1..Len(old.tips) : Equals(old.tips[m], last.arg)
                     THEN old.tips
                     ELSE Append(old.tips, last.arg)
    /\ \A i \in 1..Len(sbs) :
          /\ sbs[i].count >= Len(sbs[i].tips)
          /\ \A m, n \in 1..Len(sbs[i].tips) :
                 Equals(sbs[i].tips[m], sbs[i].tips[n]) => m = n

\* An Insert went past an unrelated bucket to a bucket that held an equal
\* member: the counter is ahead of the member list.
C28_Witness ==
    /\ last.op = "Insert"
    /\ Len(sbs) = Len(last.before)
    /\ leastOf(relatedAt(last.before, last.arg)) = 2
    /\ sbs[2].tips = last.before[2].tips
    /\ sbs[2].count > Len(sbs[2].tips)

\* C29: Pop on a set that has a bucket returns a bucket whose heaviest
\* member weighs at least as much as the heaviest member of every other
\* bucket, removes that bucket and no other, and leaves the others in
\* their order.
C29_PopHeaviestBucket ==
    last.op = "Pop" =>
        \E i \in 1..Len(last.before) :
            /\ last.ret = last.before[i]
            /\ sbs = dropAt(last.before, i)
            /\ \A j \in 1..Len(last.before) :
                  ~GreaterThan(topWeight(last.before[j]), topWeight(last.ret))

\* Pop took the bucket in the middle of three.
C29_Witness ==
    /\ last.op = "Pop"
    /\ Len(last.before) = 3
    /\ last.ret = last.before[2]
    /\ sbs = <<last.before[1], last.before[3]>>

\* C30: PopRelated(ts) returns the first bucket in order that has a member
\* related to ts and removes it, leaving the others as they are; with no
\* such bucket it returns none and leaves the set as it is.
C30_PopRelatedFirst ==
    last.op = "PopRelated" =>
        LET rel == relatedAt(last.before, last.arg) IN
        IF rel = {}
        THEN ~last.found /\ sbs = last.before
        ELSE /\ last.found
             /\ last.ret = last.before[leastOf(rel)]
             /\ sbs = dropAt(last.before, leastOf(rel))

\* PopRelated took the first of two related buckets and left the second.
C30_Witness ==
    /\ last.op = "PopRelated"
    /\ last.found
    /\ \E i, j \in relatedAt(last.before, last.arg) : i < j
    /\ Len(sbs) = Len(last.before) - 1

\* PopRelated found no related bucket in a set that has buckets.
C30_WitnessNone ==
    /\ last.op = "PopRelated"
    /\ ~last.found
    /\ Len(sbs) > 0

\* C31: Heaviest leaves the bucket set as it is and returns a member no
\* member of any bucket outweighs (nil on an empty set); on a set that has
\* a bucket the tip set returned is the heaviest member of the bucket Pop
\* returns in the same state, also when buckets tie on weight.
C31_HeaviestAgreesWithPop ==
    last.op = "Heaviest" =>
        /\ sbs = last.before
        /\ IF Len(last.before) = 0
           THEN last.hts = NilTipSet
           ELSE /\ last.hts \in members(last.before)
                /\ \A t \in members(last.before) :
                      ~GreaterThan(ParentWeight(t), ParentWeight(last.hts))
                /\ last.hts = heaviestTipSet(Pop(last.before).bucket)

\* Heaviest was called on a set in which a later bucket ties with the
\* bucket of the tip set returned.
C31_Witness ==
    /\ last.op = "Heaviest"
    /\ \E i, j \in 1..Len(sbs) :
          /\ i < j
          /\ last.hts \in {sbs[i].tips[m] : m \in 1..Len(sbs[i].tips)}
          /\ topWeight(sbs[j]) = ParentWeight(last.hts)

\* Every member of bucket b, when b has two or more members, is
\* same-chain-related to another member of b.
linked(b) ==
    Len(b.tips) >= 2 =>
        \A i \in 1..Len(b.tips) :
            \E j \in 1..Len(b.tips) : j # i /\ sameChainRelated(b.tips[i], b.tips[j])

\* C32: in every bucket of two or more members, in the pending queue, the
\* overflow set or the dispatch target, each member is same-chain-related
\* to at least one other member of the bucket.
C32_BucketMembersLinked ==
    /\ \A i \in 1..Len(syncQueue) : linked(syncQueue[i])
    /\ \A i \in 1..Len(activeSyncTips) : linked(activeSyncTips[i])
    /\ \A i \in 1..Len(nextSyncTarget) : linked(nextSyncTarget[i])

\* The dispatch target holds three members, two of which are not related
\* to each other.
C32_Witness ==
    /\ nextSyncTarget # <<>>
    /\ Len(nextSyncTarget[1].tips) = 3
    /\ \E i, j \in 1..3 : ~sameChainRelated(nextSyncTarget[1].tips[i], nextSyncTarget[1].tips[j])

\* The pending queue holds a bucket of two members.
C32_WitnessQueue == \E i \in 1..Len(syncQueue) : Len(syncQueue[i].tips) = 2

\* C33: the selection of the initial sync target compares weights only:
\* on candidates that tie on the greatest weight it returns one of them,
\* and which one does not depend on the heights, so the same candidate can
\* be returned when the candidates are at other heights.
C33_SelectionIgnoresHeights ==
    last.op = "selectSyncTarget" =>
        /\ \E p \in DOMAIN last.heads : last.hts = last.heads[p]
        /\ \A p \in DOMAIN last.heads :
              ~GreaterThan(ParentWeight(last.heads[p]), ParentWeight(last.hts))
        /\ \E t \in selectSyncTarget(last.alt) : Equals(t, last.hts)

\* C34: the channel on which the control loop offers work is open exactly
\* when a dispatch target with at least one member is set, and no worker
\* has received a nil tip set.
C34_WorkerChanIffTarget ==
    /\ workerChan = "syncTargets" <=>
          (nextSyncTarget # <<>> /\ Len(nextSyncTarget[1].tips) >= 1)
    /\ \A w \in Workers : worker[w].pc # "idle" => worker[w].ts # NilTipSet

\* Two tip sets have been handed to workers and the channel is closed to
\* the loop's send again.
C34_Witness ==
    /\ nDispatch = 2
    /\ workerChan = "nil"
    /\ nextSyncTarget = <<>>
    /\ \E w \in Workers : worker[w].pc = "sync"

\* C35: the control loop never calls Pop on an empty pending queue,
\* whatever the arrivals, dispatches and results: no step of the loop ends
\* in the fault of Pop (or any other fault of the loop).
C35_NoPopOnEmptyQueue == crashed = FALSE

\* Pop has taken the only bucket of the pending queue: two tip sets came
\* in, one was dispatched, the other is the target and the queue is
\* empty, so the next dispatch must not call Pop.
C35_Witness ==
    /\ crashed = FALSE
    /\ nForward = 2
    /\ nDispatch = 1
    /\ nextSyncTarget # <<>>
    /\ syncQueue = <<>>
    /\ \E w \in Workers : worker[w].pc = "sync" /\ ~sameChainAs(nextSyncTarget[1], worker[w].ts)

\* C36: whenever no dispatch target is set the pending queue is empty; a
\* bucket that waits in the pending queue waits behind a target that is
\* on offer, which a free worker can take at once.
C36_WorkConservation ==
    /\ nextSyncTarget = <<>> => syncQueue = <<>>
    /\ (syncQueue # <<>> /\ idleWorkers # {}) => ENABLED (\E w \in Workers : SendWork(w))

\* A bucket waits in the pending queue while a worker is busy and
\* another is free.
C36_Witness ==
    /\ syncQueue # <<>>
    /\ nextSyncTarget # <<>>
    /\ nDispatch = 1
    /\ idleWorkers # {}

\* A SetPeerHead call waits to hand its tip set to the control loop, a
\* worker waits to hand in its result, or a target is on offer to a
\* worker that waits for one.
outstanding ==
    \/ \E c \in Callers : call[c].pc = "send"
    \/ \E w \in Workers : worker[w].pc = "report"
    \/ (workerChan = "syncTargets" /\ idleWorkers # {})

\* A step of the control loop on one of its channels.
loopStep ==
    \/ \E c \in Callers : ReceiveIncoming(c)
    \/ \E w \in Workers : ReceiveResult(w)
    \/ \E w \in Workers : SendWork(w)

\* C37: while Stop is not called, in no reachable state is a handoff, a
\* result or an offered target outstanding with the control loop unable
\* to take a step on it; every worker that waits to hand in a result and
\* every SetPeerHead call that waits to hand its tip set over is served.
C37_NoDeadlock ==
    /\ [](outstanding => ENABLED loopStep)
    /\ \A w \in Workers : (worker[w].pc = "report") ~> (worker[w].pc = "idle")
    /\ \A c \in Callers : (call[c].pc = "send") ~> (call[c].pc = "sent")

\* A SetPeerHead call waits in its handoff while a worker waits to hand
\* in its result and a target is on offer to a free worker.
C37_Witness ==
    /\ \E c \in Callers : call[c].pc = "send"
    /\ \E w \in Workers : worker[w].pc = "report"
    /\ workerChan = "syncTargets"
    /\ idleWorkers # {}

\* All the heads have been reported and handed over, every doSync call
\* has returned and its result has been processed, and no target is on
\* offer: no goroutine has a step left.
settled ==
    /\ nReports = maxReports
    /\ \A c \in Callers : call[c].pc = "idle"
    /\ \A w \in Workers : worker[w].pc = "idle"
    /\ nextSyncTarget = <<>>

\* C38: when the heads reported are finitely many and every doSync call
\* returns, the state the system comes to rest in has an empty active-sync
\* set, an empty pending queue, no dispatch target and an empty overflow
\* set.
C38_Quiescence ==
    settled =>
        /\ DOMAIN activeSyncs = {}
        /\ syncQueue = <<>>
        /\ activeSyncTips = <<>>

\* In a settled state no step is left.
settledIsFinal == settled => ~ENABLED NextSched

\* C39: a call of IsBootstrapped never waits for good: while it waits for
\* the mutex, the SetPeerHead call that holds the mutex can return or can
\* hand its tip set to the control loop, also after Stop.
C39_IsBootstrappedReturns ==
    \A c \in Callers :
        call[c].pc = "lock" =>
            \/ ENABLED IsBootstrappedReturn(c)
            \/ \E h \in Callers : ENABLED SetPeerHeadReturn(h) \/ ENABLED ReceiveIncoming(h)

\* C40: the active-sync set has at most as many entries as there are
\* workers holding a dispatched tip set whose result has not been
\* processed, hence at most syncWorkerCount.
C40_ActiveSyncsBounded ==
    /\ Cardinality(DOMAIN activeSyncs) <= Cardinality(busyWorkers)
    /\ Cardinality(DOMAIN activeSyncs) <= syncWorkerCount

\* The three workers hold three different tip sets.
C40_Witness ==
    /\ Cardinality(DOMAIN activeSyncs) = syncWorkerCount
    /\ Cardinality(busyWorkers) = syncWorkerCount

\* Two workers hold equal tip sets: one entry for two jobs.
C40_WitnessFewer ==
    /\ Cardinality(DOMAIN activeSyncs) = 1
    /\ Cardinality(busyWorkers) = 2

====
